---------------------------- MODULE Spec2Model ----------------------------
(***************************************************************************)
(* Model of the real-time layer of the social-networking server:           *)
(* src/backend/routes.ts (WebSocket server, connectedClients registry,     *)
(* ws.on('message') / ws.on('close') handlers), the token verifier of      *)
(* src/authentication/auth.ts and the message store of                     *)
(* src/shared/mongoConfig.ts.                                              *)
(*                                                                         *)
(* The message handler is an async function: it suspends at                *)
(* `await import('../authentication/auth')` and at                         *)
(* `await mongoService.createMessage(...)`.  Each suspended handler is a    *)
(* record of the set `handlers`; every other event (a frame of any         *)
(* connection, a close, a store completion) may run while it waits.        *)
(***************************************************************************)
EXTENDS Integers, Sequences, FiniteSets, TLC

(* ------------------------------ bounds -------------------------------- *)

\* Number of connection handles the server accepts in a run.
NumConns == 2

\* Number of distinct user identities (well-formed ObjectId strings).
NumUsers == 2

\* Total number of inbound frames and broadcastToClients calls in a run.
MaxFrames == 3

(* ------------------------------ values -------------------------------- *)

Conns == 1..NumConns

UserIds == <<"u1", "u2", "u3", "u4">>

Users == {UserIds[i] : i \in 1..NumUsers}

\* ws.userId before any authentication: undefined.
NoUser == "undefined"

\* A receiverId that is not a 24-hex-digit string: new ObjectId(...) throws.
BadId == "not-an-object-id"

\* The ObjectId new ObjectId(...) generates when its argument is undefined.
GeneratedId == "generated-object-id"

\* new ObjectId(id) throws when id is a string that is not a well-formed
\* ObjectId; it accepts a well-formed one and undefined.
ObjectIdValid(id) == id \in Users \cup {NoUser}

\* new ObjectId(id): the id itself, or a fresh one when id is undefined.
ObjectId(id) == IF id = NoUser THEN GeneratedId ELSE id

\* A JWT, described by what jwt.verify looks at: the key that signed it and
\* whether it has expired; its payload carries userId.  The tokens a client
\* may present: each user's current access token, an expired access token and
\* a refresh token (signed with the other secret).
Tokens ==
    [userId : Users, key : {"jwt"}, expired : {FALSE}]
      \cup [userId : {UserIds[1]}, key : {"jwt"}, expired : {TRUE}]
      \cup [userId : {UserIds[1]}, key : {"refresh"}, expired : {FALSE}]

NoToken == [userId |-> NoUser, key |-> "none", expired |-> FALSE]

\* jwt.verify(token, this.jwtSecret): accepts a token signed with the access
\* secret that has not expired, and throws otherwise.
verifyAccessTokenOk(token) == token.key = "jwt" /\ ~token.expired

\* Frame types that no branch of the handler recognises.  "auth" is the
\* handshake frame of the client hook; the typing frames are those it sends.
OtherTypes == {"typing_start", "typing_stop", "auth", "bogus"}

\* The content strings a send_message body may carry, as character sequences:
\* a text and a whitespace-only string.
Contents == {<<"h", "i">>, <<" ">>}

\* content.trim().length === 0: the string is empty or all whitespace.
Blank(content) == \A i \in DOMAIN content : content[i] = " "

NoData == [senderId |-> NoUser, receiverId |-> NoUser, content |-> <<>>]

(* ------------------------------ state --------------------------------- *)

VARIABLES
    readyState,        \* readyState[c]: "NONE" (not accepted yet), "OPEN", "CLOSING", "CLOSED"
    userId,            \* userId[c]: ws.userId
    connectedClients,  \* the Map<string, WebSocketClient>, as a set of <<key, value>> pairs
    handlers,          \* the suspended invocations of the async message handler
    store,             \* the documents of the 'messages' collection, in insertion order
    pushes,            \* every ws.send call made by the server, in order
    frames,            \* every inbound frame handled so far, in order of arrival
    broadcasts,        \* every broadcastToClients call so far, in order
    posts,             \* the 'posts' collection: posts[p] is the document of post p
    likes,             \* the 'likes' collection, in insertion order
    follows,           \* the 'follows' collection, in insertion order
    requests,          \* the HTTP requests whose handler is suspended at a store call
    responses,         \* every HTTP response sent so far, in order
    now,               \* Date.now(), in ticks
    transporter,       \* whether EmailService has a mail transporter configured
    otpStore,          \* EmailService.otpStore, as a set of <<key, value>> pairs
    otpLog,            \* every OTP issued and every verifyOTP call so far, in order
    attempts,          \* the attempts Map of the limiter that served the latest request
    limiterLog         \* every request that reached the limiter so far, in order

\* The state of the WebSocket layer.
socketVars == <<readyState, userId, connectedClients, handlers, store, pushes, frames, broadcasts>>

\* The state of the HTTP routes' collections and requests.
httpVars == <<posts, likes, follows, requests, responses>>

\* The state of EmailService.
otpVars == <<transporter, otpStore, otpLog>>

\* The state of the auth routes' rate limiter.
limiterVars == <<attempts, limiterLog>>

\* Everything but the state of the WebSocket layer.
nonSocketVars == <<httpVars, now, otpVars, limiterVars>>

vars == <<socketVars, nonSocketVars>>

\* Number of inbound frames handled so far; a frame's number identifies it.
nframes == Len(frames)

\* Number of events handled so far: inbound frames and broadcast calls.
nevents == nframes + Len(broadcasts)

(* --------------------------- Map operations --------------------------- *)

MapHas(m, k) == \E p \in m : p[1] = k

MapGet(m, k) == CHOOSE p \in m : p[1] = k

\* Map.set that adds the pair without replacing the key's earlier one.
MapSetKeepingOld(m, k, v) == m \cup {<<k, v>>}

MapSet(m, k, v) == {p \in m : p[1] # k} \cup {<<k, v>>}

MapDelete(m, k) == {p \in m : p[1] # k}

(* ------------------------------ ws.send ------------------------------- *)

\* One ws.send call: the target, the frame's type, the message document it
\* carries (0: none), whether the target's transport was OPEN at the call
\* (a send on a CLOSING or CLOSED socket is dropped), and the frame whose
\* handling made the call (0: a broadcastToClients call, made by a route).
Push(c, type, msg, frame) ==
    [to |-> c, type |-> type, msg |-> msg, open |-> readyState[c] = "OPEN", frame |-> frame]

(* ------------------------------- Init --------------------------------- *)

InitSocket ==
    /\ readyState = [c \in Conns |-> "NONE"]
    /\ userId = [c \in Conns |-> NoUser]
    /\ connectedClients = {}
    /\ handlers = {}
    /\ store = <<>>
    /\ pushes = <<>>
    /\ frames = <<>>
    /\ broadcasts = <<>>

InitHttp ==
    /\ posts = <<>>
    /\ likes = <<>>
    /\ follows = <<>>
    /\ requests = {}
    /\ responses = <<>>

InitOtp ==
    /\ otpStore = {}
    /\ otpLog = <<>>

InitLimiter ==
    /\ attempts = {}
    /\ limiterLog = <<>>

\* The state after construction, with a mail transporter configured.
Init ==
    /\ InitSocket
    /\ InitHttp
    /\ now = 0
    /\ transporter = TRUE
    /\ InitOtp
    /\ InitLimiter

(* ---------------------------- connections ----------------------------- *)

\* wss.on('connection'): a new handle, open and unauthenticated.  Handles
\* are taken in order (they are interchangeable).
Connection(c) ==
    /\ readyState[c] = "NONE"
    /\ \A d \in Conns : d < c => readyState[d] # "NONE"
    /\ readyState' = [readyState EXCEPT ![c] = "OPEN"]
    /\ UNCHANGED <<userId, connectedClients, handlers, store, pushes, frames, broadcasts, nonSocketVars>>

\* The peer's close frame arrives: the transport is CLOSING until the socket
\* ends.  No handler of the server runs.
Closing(c) ==
    /\ readyState[c] = "OPEN"
    /\ readyState' = [readyState EXCEPT ![c] = "CLOSING"]
    /\ UNCHANGED <<userId, connectedClients, handlers, store, pushes, frames, broadcasts, nonSocketVars>>

\* What ws.on('close') does to the registry.
OnCloseRegistry(c) ==
    IF userId[c] # NoUser THEN MapDelete(connectedClients, userId[c])
    ELSE connectedClients

\* ws.on('close'): the transport is CLOSED and the close handler runs.
Close(c) ==
    /\ readyState[c] \in {"OPEN", "CLOSING"}
    /\ readyState' = [readyState EXCEPT ![c] = "CLOSED"]
    /\ connectedClients' = OnCloseRegistry(c)
    /\ UNCHANGED <<userId, handlers, store, pushes, frames, broadcasts, nonSocketVars>>

(* ------------------------- inbound frames ----------------------------- *)

\* What the client may put on the wire: text that JSON.parse rejects, or an
\* object with a type and the fields the handler reads.  senderId is a field
\* a client may add to a send_message body; the handler never reads it.  A
\* receiverId of NoUser is a body without the field.
AuthenticateFrames ==
    [json : {TRUE}, type : {"authenticate"}, token : Tokens,
     senderId : {NoUser}, receiverId : {NoUser}, content : {<<>>}, targetUserId : {NoUser}]

SendMessageFrames ==
    [json : {TRUE}, type : {"send_message"}, token : {NoToken},
     senderId : Users, receiverId : Users \cup {BadId, NoUser}, content : Contents,
     targetUserId : {NoUser}]

\* The frames of sendTypingStart / sendTypingStop.
TypingTypes == {"typing_start", "typing_stop"}

OtherFrames ==
    [json : {TRUE}, type : OtherTypes \ TypingTypes, token : {NoToken},
     senderId : {NoUser}, receiverId : {NoUser}, content : {<<>>}, targetUserId : {NoUser}]
      \cup [json : {TRUE}, type : TypingTypes, token : {NoToken},
             senderId : {NoUser}, receiverId : {NoUser}, content : {<<>>}, targetUserId : Users]

UnparseableFrames ==
    [json : {FALSE}, type : {"none"}, token : {NoToken},
     senderId : {NoUser}, receiverId : {NoUser}, content : {<<>>}, targetUserId : {NoUser}]

Frames == AuthenticateFrames \cup SendMessageFrames \cup OtherFrames \cup UnparseableFrames

\* Branch without the `&& ws.userId` test of the send_message branch.
BranchWithoutUserIdTest(c, data) ==
    IF ~data.json THEN "parse_error"
    ELSE IF data.type = "authenticate" THEN "authenticate"
    ELSE IF data.type = "send_message" THEN "send_message"
    ELSE "none"

\* The branch of ws.on('message') a frame takes on connection c:
\* JSON.parse throws, or the if / else-if chain on data.type.
Branch(c, data) ==
    IF ~data.json THEN "parse_error"
    ELSE IF data.type = "authenticate" THEN "authenticate"
    ELSE IF data.type = "send_message" /\ userId[c] # NoUser THEN "send_message"
    ELSE "none"

\* MessageData taking the sender from the frame body.
MessageDataFromBody(c, data) ==
    [senderId |-> data.senderId, receiverId |-> data.receiverId, content |-> data.content]

\* The messageData object the send_message branch builds.
MessageData(c, data) ==
    [senderId |-> userId[c], receiverId |-> data.receiverId, content |-> data.content]

\* Whether building messageData throws: new ObjectId on a malformed string.
MessageDataThrows(md) == ~ObjectIdValid(md.senderId) \/ ~ObjectIdValid(md.receiverId)

\* A suspended invocation of the handler: the frame's number, its connection,
\* where it waits ("import", "store", then "resolved" or "rejected" once the
\* store call has settled), and its locals.
Handler(id, c, kind, pc, token, data) ==
    [id |-> id, conn |-> c, kind |-> kind, pc |-> pc, token |-> token, data |-> data, msg |-> 0]

\* The record of an inbound frame: the connection it arrived on, its type and
\* the identity its body names (the token's userId, a typing frame's
\* targetUserId, or the body's senderId).
Received(c, data) ==
    [conn |-> c, type |-> data.type,
     user |-> IF data.type = "authenticate" THEN data.token.userId
              ELSE IF data.type \in TypingTypes THEN data.targetUserId
              ELSE data.senderId]

\* The outer catch answering on another frame type than error.
OuterCatchWrongType(c, n) == Push(c, "authentication_error", 0, n)

\* The outer catch of the handler of frame n on connection c: the error frame
\* it sends.
OuterCatch(c, n) == Push(c, "error", 0, n)

\* JSON.parse throws: the outer catch sends an error frame.
MessageUnparseable(c) ==
    /\ readyState[c] = "OPEN"
    /\ nevents < MaxFrames
    /\ \E data \in UnparseableFrames :
         /\ Branch(c, data) = "parse_error"
         /\ pushes' = Append(pushes, OuterCatch(c, nframes + 1))
         /\ frames' = Append(frames, Received(c, data))
    /\ UNCHANGED <<readyState, userId, connectedClients, handlers, store, broadcasts, nonSocketVars>>

\* data.type === 'authenticate': the handler suspends at the dynamic import.
MessageAuthenticate(c) ==
    /\ readyState[c] = "OPEN"
    /\ nevents < MaxFrames
    /\ \E data \in AuthenticateFrames :
         /\ Branch(c, data) = "authenticate"
         /\ handlers' = handlers \cup
               {Handler(nframes + 1, c, "auth", "import", data.token, NoData)}
         /\ frames' = Append(frames, Received(c, data))
    /\ UNCHANGED <<readyState, userId, connectedClients, store, pushes, broadcasts, nonSocketVars>>

\* data.type === 'send_message' && ws.userId: messageData is built (new
\* ObjectId throws on a malformed receiverId, and the outer catch sends an
\* error frame), then the handler suspends at createMessage.
MessageSendMessage(c) ==
    /\ readyState[c] = "OPEN"
    /\ nevents < MaxFrames
    /\ \E data \in SendMessageFrames :
         /\ Branch(c, data) = "send_message"
         /\ IF ~MessageDataThrows(MessageData(c, data))
            THEN /\ handlers' = handlers \cup
                       {Handler(nframes + 1, c, "send", "store", NoToken, MessageData(c, data))}
                 /\ UNCHANGED pushes
            ELSE /\ pushes' = Append(pushes, OuterCatch(c, nframes + 1))
                 /\ UNCHANGED handlers
         /\ frames' = Append(frames, Received(c, data))
    /\ UNCHANGED <<readyState, userId, connectedClients, store, broadcasts, nonSocketVars>>

\* No branch matches (an unknown type, a typing frame, or send_message on a
\* connection with no userId): the handler returns without doing anything.
MessageIgnored(c) ==
    /\ readyState[c] = "OPEN"
    /\ nevents < MaxFrames
    /\ \E data \in SendMessageFrames \cup OtherFrames :
         /\ Branch(c, data) = "none"
         /\ frames' = Append(frames, Received(c, data))
    /\ UNCHANGED <<readyState, userId, connectedClients, handlers, store, pushes, broadcasts, nonSocketVars>>

(* ------------------------ authenticate branch ------------------------- *)

\* AuthenticateUserId whose failure path clears ws.userId.
AuthenticateUserIdClearOnFailure(h) ==
    IF verifyAccessTokenOk(h.token)
    THEN [userId EXCEPT ![h.conn] = h.token.userId]
    ELSE [userId EXCEPT ![h.conn] = NoUser]

\* AuthenticateUserId that also unbinds every other connection holding the
\* identity.
AuthenticateUserIdTakeOver(h) ==
    IF verifyAccessTokenOk(h.token)
    THEN [d \in Conns |->
            IF d = h.conn THEN h.token.userId
            ELSE IF userId[d] = h.token.userId THEN NoUser
            ELSE userId[d]]
    ELSE userId

\* ws.userId after the authenticate branch ran for handler h.
AuthenticateUserId(h) ==
    IF verifyAccessTokenOk(h.token)
    THEN [userId EXCEPT ![h.conn] = h.token.userId]
    ELSE userId

\* AuthenticateRegistry without the connectedClients.set call.
AuthenticateRegistryNoSet(h) == connectedClients

\* AuthenticateRegistry whose failure path drops the entry of the token's user.
AuthenticateRegistryDropOnFailure(h) ==
    IF verifyAccessTokenOk(h.token)
    THEN MapSet(connectedClients, h.token.userId, h.conn)
    ELSE MapDelete(connectedClients, h.token.userId)

\* AuthenticateRegistry that ends the identity's earlier session: it deletes an
\* existing entry of the user instead of replacing it.
AuthenticateRegistryEndEarlierSession(h) ==
    IF verifyAccessTokenOk(h.token)
    THEN IF MapHas(connectedClients, h.token.userId)
         THEN MapDelete(connectedClients, h.token.userId)
         ELSE MapSet(connectedClients, h.token.userId, h.conn)
    ELSE connectedClients

\* connectedClients after the authenticate branch ran for handler h.
AuthenticateRegistry(h) ==
    IF verifyAccessTokenOk(h.token)
    THEN MapSet(connectedClients, h.token.userId, h.conn)
    ELSE connectedClients

\* The frame the authenticate branch sends: from the try, or from its catch.
AuthenticateReply(h) ==
    IF verifyAccessTokenOk(h.token)
    THEN Push(h.conn, "authenticated", 0, h.id)
    ELSE Push(h.conn, "authentication_error", 0, h.id)

\* The import has resolved: the rest of the authenticate branch runs.
AuthenticateResume(h) ==
    /\ h.kind = "auth" /\ h.pc = "import"
    /\ userId' = AuthenticateUserId(h)
    /\ connectedClients' = AuthenticateRegistry(h)
    /\ pushes' = Append(pushes, AuthenticateReply(h))
    /\ handlers' = handlers \ {h}
    /\ UNCHANGED <<readyState, store, frames, broadcasts, nonSocketVars>>

(* ------------------------- send_message branch ------------------------ *)

\* The document mongoService.create inserts for handler h.
Document(h) ==
    [id |-> Len(store) + 1,
     senderId |-> ObjectId(h.data.senderId), receiverId |-> ObjectId(h.data.receiverId),
     content |-> h.data.content,
     frame |-> h.id, conn |-> h.conn]

\* mongoService.createMessage settles: it inserts the message and updates the
\* conversation ("ok"), or the insert fails ("insert_failed"), or the
\* insert succeeds and the conversation update fails ("update_failed").
CreateMessage(h) ==
    /\ h.kind = "send" /\ h.pc = "store"
    /\ \E outcome \in {"ok", "insert_failed", "update_failed"} :
         /\ store' = IF outcome = "insert_failed" THEN store ELSE Append(store, Document(h))
         /\ handlers' = (handlers \ {h}) \cup
               {[h EXCEPT !.pc = IF outcome = "ok" THEN "resolved" ELSE "rejected",
                          !.msg = IF outcome = "ok" THEN Len(store) + 1 ELSE 0]}
    /\ UNCHANGED <<readyState, userId, connectedClients, pushes, frames, broadcasts, nonSocketVars>>

\* ReceiverPushes looking up the message's sender instead of its receiver.
ReceiverPushesToSender(h) ==
    IF MapHas(connectedClients, h.data.senderId)
    THEN <<Push(MapGet(connectedClients, h.data.senderId)[2], "new_message", h.msg, h.id)>>
    ELSE <<>>

\* "Send to receiver if connected": the sends to the receiver's connection.
ReceiverPushes(h) ==
    IF MapHas(connectedClients, h.data.receiverId)
    THEN <<Push(MapGet(connectedClients, h.data.receiverId)[2], "new_message", h.msg, h.id)>>
    ELSE <<>>

\* SenderPushes confirming to the sender whether or not the store call failed.
SenderPushesAlwaysConfirm(h) == <<Push(h.conn, "message_sent", h.msg, h.id)>>

\* SenderPushes whose catch sends nothing when the store call failed.
SenderPushesSilentOnFailure(h) ==
    IF h.pc = "resolved"
    THEN <<Push(h.conn, "message_sent", h.msg, h.id)>>
    ELSE <<>>

\* "Confirm to sender": the sends to the sender's own connection.
SenderPushes(h) ==
    IF h.pc = "resolved"
    THEN <<Push(h.conn, "message_sent", h.msg, h.id)>>
    ELSE <<Push(h.conn, "error", 0, h.id)>>

\* SendMessagePushes confirming to the sender only when the receiver was reached.
SendMessagePushesConfirmIfDelivered(h) ==
    IF h.pc = "resolved"
    THEN IF ReceiverPushes(h) = <<>> THEN <<>> ELSE ReceiverPushes(h) \o SenderPushes(h)
    ELSE SenderPushes(h)

\* Every send of the send_message branch once createMessage has settled:
\* after a resolve the receiver's and the sender's, after a reject the catch's.
SendMessagePushes(h) ==
    IF h.pc = "resolved"
    THEN ReceiverPushes(h) \o SenderPushes(h)
    ELSE SenderPushes(h)

\* The handler resumes after the await on createMessage.
SendMessageResume(h) ==
    /\ h.kind = "send" /\ h.pc \in {"resolved", "rejected"}
    /\ pushes' = pushes \o SendMessagePushes(h)
    /\ handlers' = handlers \ {h}
    /\ UNCHANGED <<readyState, userId, connectedClients, store, frames, broadcasts, nonSocketVars>>

(* ----------------------------- broadcast ------------------------------ *)

\* The domain events the HTTP routes broadcast.
BroadcastTypes == {"new_post", "post_liked"}

\* BroadcastClients without the readyState test.
BroadcastClientsAnyState == connectedClients

\* The entries of connectedClients whose client passes the test
\* client.readyState === WebSocket.OPEN.
BroadcastClients == {p \in connectedClients : readyState[p[2]] = "OPEN"}

\* The orders in which forEach may visit the entries S (the Map's insertion
\* order is not part of the state: every order is allowed).
Orders(S) ==
    {q \in [1..Cardinality(S) -> S] : \A i, j \in 1..Cardinality(S) : q[i] = q[j] => i = j}

\* The client.send(message) calls of one broadcast visiting the entries in
\* order q; message is serialized once, from the type and the event's data.
BroadcastPushes(type, q) == [i \in 1..Len(q) |-> Push(q[i][2], type, 0, 0)]

\* The record of one call: its type, the registry it iterated and the
\* connections that were OPEN.
Broadcasted(type) ==
    [type |-> type, registry |-> connectedClients,
     open |-> {c \in Conns : readyState[c] = "OPEN"}]

\* broadcastToClients(type, data): what the call does.
broadcastToClients(type) ==
    /\ \E q \in Orders(BroadcastClients) : pushes' = pushes \o BroadcastPushes(type, q)
    /\ broadcasts' = Append(broadcasts, Broadcasted(type))

\* A route calls broadcastToClients(type, data) after its mutation.
Broadcast(type) ==
    /\ nevents < MaxFrames
    /\ broadcastToClients(type)
    /\ UNCHANGED <<readyState, userId, connectedClients, handlers, store, frames, nonSocketVars>>

(* ------------------------------- Next --------------------------------- *)

Next ==
    \/ \E c \in Conns : Connection(c)
    \/ \E c \in Conns : Closing(c)
    \/ \E c \in Conns : Close(c)
    \/ \E c \in Conns : MessageUnparseable(c)
    \/ \E c \in Conns : MessageAuthenticate(c)
    \/ \E c \in Conns : MessageSendMessage(c)
    \/ \E c \in Conns : MessageIgnored(c)
    \/ \E h \in handlers : AuthenticateResume(h)
    \/ \E h \in handlers : CreateMessage(h)
    \/ \E h \in handlers : SendMessageResume(h)
    \/ \E type \in BroadcastTypes : Broadcast(type)

Spec == Init /\ [][Next]_vars

(* ------------------------------ the clock ------------------------------ *)

\* The last tick of the clock in a run.
MaxTime == 2

\* Time passes.
Tick ==
    /\ now < MaxTime
    /\ now' = now + 1
    /\ UNCHANGED <<socketVars, httpVars, otpVars, limiterVars>>

(* ---------------------------- EmailService ----------------------------- *)

\* Total number of OTP sends and verifyOTP calls in a run.
MaxOtpCalls == 4

\* The ten minutes an OTP is valid, in ticks.
OtpLifetime == 1

Emails == {"a@x.io", "b@x.io"}

OtpTypes == {"verification", "password_reset"}

\* The codes generateOTP may draw.
Codes == {"111111", "222222"}

\* The key `${type}_${email}`: the two type prefixes differ, so the key
\* determines the pair.
OtpKey(type, email) == <<type, email>>

\* The OTPData stored for a code generated now.
OtpData(code, email, type) ==
    [code |-> code, email |-> email, type |-> type, expiresAt |-> now + OtpLifetime]

\* The record of a send (result: whether an OTP was stored) or of a verifyOTP
\* call (result: what it returned).
OtpCall(op, email, code, type, result) ==
    [op |-> op, email |-> email, code |-> code, type |-> type, result |-> result]

\* The common body of sendVerificationEmail and sendPasswordResetOTP: without
\* a transporter nothing is stored; otherwise a fresh code replaces the key's
\* entry before the mail is sent (whether or not sendMail then succeeds).
SendOtp(type, email) ==
    /\ Len(otpLog) < MaxOtpCalls
    /\ IF ~transporter
       THEN /\ UNCHANGED otpStore
            /\ otpLog' = Append(otpLog, OtpCall("send", email, "", type, FALSE))
       ELSE \E code \in Codes :
               /\ otpStore' = MapSet(otpStore, OtpKey(type, email), OtpData(code, email, type))
               /\ otpLog' = Append(otpLog, OtpCall("send", email, code, type, TRUE))
    /\ UNCHANGED <<socketVars, httpVars, now, transporter, limiterVars>>

sendVerificationEmail(email) == SendOtp("verification", email)

sendPasswordResetOTP(email) == SendOtp("password_reset", email)

\* new Date() > otpData.expiresAt
OtpExpired(otpData) == now > otpData.expiresAt

\* What verifyOTP returns.
verifyOTPResult(email, code, type) ==
    LET key == OtpKey(type, email)
    IN  IF ~MapHas(otpStore, key) THEN FALSE
        ELSE IF OtpExpired(MapGet(otpStore, key)[2]) THEN FALSE
        ELSE MapGet(otpStore, key)[2].code = code

\* verifyOTPStore that keeps the entry after a successful verification.
verifyOTPStoreKeepOnSuccess(email, code, type) ==
    LET key == OtpKey(type, email)
    IN  IF ~MapHas(otpStore, key) THEN otpStore
        ELSE IF OtpExpired(MapGet(otpStore, key)[2]) THEN MapDelete(otpStore, key)
        ELSE otpStore

\* otpStore after verifyOTP: an expired entry and a matched entry are deleted.
verifyOTPStore(email, code, type) ==
    LET key == OtpKey(type, email)
    IN  IF ~MapHas(otpStore, key) THEN otpStore
        ELSE IF OtpExpired(MapGet(otpStore, key)[2]) THEN MapDelete(otpStore, key)
        ELSE IF MapGet(otpStore, key)[2].code # code THEN otpStore
        ELSE MapDelete(otpStore, key)

\* EmailService.verifyOTP(email, code, type); it has no await before its
\* return, so it runs in one step.
verifyOTP(email, code, type) ==
    /\ Len(otpLog) < MaxOtpCalls
    /\ otpStore' = verifyOTPStore(email, code, type)
    /\ otpLog' = Append(otpLog, OtpCall("verify", email, code, type, verifyOTPResult(email, code, type)))
    /\ UNCHANGED <<socketVars, httpVars, now, transporter, limiterVars>>

\* EmailService.cleanupExpiredOTPs().
cleanupExpiredOTPs ==
    /\ otpStore' = {p \in otpStore : ~OtpExpired(p[2])}
    /\ UNCHANGED <<socketVars, httpVars, now, transporter, otpLog, limiterVars>>

\* The service after construction, with or without a mail transporter.
InitEmailService ==
    /\ InitSocket
    /\ InitHttp
    /\ now = 0
    /\ transporter \in BOOLEAN
    /\ InitOtp
    /\ InitLimiter

NextOtp ==
    \/ \E email \in Emails : sendVerificationEmail(email)
    \/ \E email \in Emails : sendPasswordResetOTP(email)
    \/ \E email \in Emails, code \in Codes, type \in OtpTypes : verifyOTP(email, code, type)
    \/ cleanupExpiredOTPs
    \/ Tick

SpecOtp == InitEmailService /\ [][NextOtp]_vars

(* ------------------------- auth rate limiter --------------------------- *)

\* Total number of requests to /auth routes in a run.
MaxAuthRequests == 6

\* maxAttempts of rateLimitAuth.
maxAttempts == 5

\* windowMs of rateLimitAuth (15 minutes), in ticks.
windowMs == 1

\* The client ids (req.ip) requests come from.
ClientIds == {"10.0.0.1", "10.0.0.2"}

\* rateLimitAuth(): the attempts Map a call of the factory creates for the
\* middleware it returns.
rateLimitAuth == {}

\* The entry a request that opens a window stores.
NewWindow == [count |-> 1, resetTime |-> now + windowMs]

\* The middleware rateLimitAuth() returns, run on the attempts Map m for a
\* request of clientId: the Map afterwards and whether next() was called
\* (otherwise the answer is 429).
Middleware(m, clientId) ==
    IF ~MapHas(m, clientId)
    THEN [attempts |-> MapSet(m, clientId, NewWindow), passed |-> TRUE]
    ELSE LET clientAttempts == MapGet(m, clientId)[2]
         IN  IF now > clientAttempts.resetTime
             THEN [attempts |-> MapSet(m, clientId, NewWindow), passed |-> TRUE]
             ELSE IF clientAttempts.count >= maxAttempts
             THEN [attempts |-> m, passed |-> FALSE]
             ELSE [attempts |->
                      MapSet(m, clientId, [clientAttempts EXCEPT !.count = @ + 1]),
                   passed |-> TRUE]

\* The record of a request that reached the limiter.
Limited(clientId, passed) == [clientId |-> clientId, time |-> now, passed |-> passed]

\* router.use('/auth', (req, res, next) =>
\*     getAuthMiddleware().rateLimitAuth()(req, res, next)):
\* every request calls the factory and runs the middleware it returns.
AuthRequest(clientId) ==
    /\ Len(limiterLog) < MaxAuthRequests
    /\ LET served == Middleware(rateLimitAuth, clientId)
       IN  /\ attempts' = served.attempts
           /\ limiterLog' = Append(limiterLog, Limited(clientId, served.passed))
    /\ UNCHANGED <<socketVars, httpVars, now, otpVars>>

NextLimiter ==
    \/ \E clientId \in ClientIds : AuthRequest(clientId)
    \/ Tick

SpecLimiter == Init /\ [][NextLimiter]_vars

(* ----------------------------- HTTP routes ----------------------------- *)

\* Total number of requests to the post, like and follow routes in a run.
MaxHttpRequests == 3

\* The post ids a request may name: those of the posts created so far and one
\* that names no post.
PostIds == 1..MaxHttpRequests

\* A field stored or queried as a string, and one as an ObjectId: a MongoDB
\* query matches a field only when value and type agree.
Str(x) == <<"string", x>>

Oid(x) == <<"ObjectId", x>>

\* Number of requests received so far; a request's number identifies it.
nrequests == Len(responses) + Cardinality(requests)

\* A request whose handler is suspended at a store call.
Request(id, route, uid, target) ==
    [id |-> id, route |-> route, userId |-> uid, target |-> target]

\* res.status(status).json(...) of request id.
Response(id, route, uid, target, status) ==
    [id |-> id, route |-> route, userId |-> uid, target |-> target, status |-> status]

\* The request is answered without any broadcast.
Respond(id, route, uid, target, status) ==
    /\ responses' = Append(responses, Response(id, route, uid, target, status))
    /\ UNCHANGED <<pushes, broadcasts>>

\* Emits broadcasting whatever the store call's outcome was.
EmitsOnAnyOutcome(outcome) == TRUE

\* Whether the route reaches its broadcastToClients call: it comes after the
\* awaited store call, which must not have thrown.
Emits(outcome) == outcome = "ok"

\* The end of a route whose store call had the outcome: the broadcast and the
\* success status, or the catch's 500.
Finish(id, route, uid, target, type, success, outcome) ==
    /\ IF Emits(outcome) THEN broadcastToClients(type) ELSE UNCHANGED <<pushes, broadcasts>>
    /\ responses' = Append(responses,
           Response(id, route, uid, target, IF outcome = "ok" THEN success ELSE 500))

\* What no HTTP route touches.
httpUnchanged == <<readyState, userId, connectedClients, handlers, store, frames, now, otpVars, limiterVars>>

\* POST /api/posts: 400 on blank content; createPost inserts the post and
\* updates the user's counter (either may fail), then new_post is broadcast.
PostPosts(uid, content) ==
    /\ nrequests < MaxHttpRequests
    /\ IF Blank(content)
       THEN /\ Respond(nrequests + 1, "POST /posts", uid, 0, 400)
            /\ UNCHANGED posts
       ELSE \E outcome \in {"ok", "insert_failed", "update_failed"} :
               /\ posts' = IF outcome = "insert_failed" THEN posts
                           ELSE Append(posts, [userId |-> uid, isDeleted |-> FALSE])
               /\ Finish(nrequests + 1, "POST /posts", uid, Len(posts) + 1,
                         "new_post", 201, outcome)
    /\ UNCHANGED <<likes, follows, requests, httpUnchanged>>

\* DELETE /api/posts/:id, up to its deletePost call: getPostById fails (500),
\* finds nothing (404) or finds a post of another user (403); otherwise the
\* handler goes on to deletePost.
DeletePostsBegin(uid, postId) ==
    /\ nrequests < MaxHttpRequests
    /\ \E outcome \in {"ok", "find_failed"} :
         IF outcome = "find_failed"
         THEN Respond(nrequests + 1, "DELETE /posts", uid, postId, 500) /\ UNCHANGED requests
         ELSE IF postId \notin DOMAIN posts
         THEN Respond(nrequests + 1, "DELETE /posts", uid, postId, 404) /\ UNCHANGED requests
         ELSE IF posts[postId].userId # uid
         THEN Respond(nrequests + 1, "DELETE /posts", uid, postId, 403) /\ UNCHANGED requests
         ELSE /\ requests' = requests \cup
                    {Request(nrequests + 1, "DELETE /posts", uid, postId)}
              /\ UNCHANGED <<responses, pushes, broadcasts>>
    /\ UNCHANGED <<posts, likes, follows, httpUnchanged>>

\* deletePost settles: it marks the post deleted and then updates the counter
\* (a soft delete: the document stays, and getPostById still finds it), or
\* its getPostById, its first or its second update fails; then post_deleted
\* is broadcast.
DeletePostsEnd(r) ==
    /\ r.route = "DELETE /posts"
    /\ \E outcome \in {"ok", "find_failed", "update_failed", "count_failed"} :
         /\ posts' = IF outcome \in {"find_failed", "update_failed"} THEN posts
                     ELSE [posts EXCEPT ![r.target].isDeleted = TRUE]
         /\ Finish(r.id, r.route, r.userId, r.target, "post_deleted", 200, outcome)
    /\ requests' = requests \ {r}
    /\ UNCHANGED <<likes, follows, httpUnchanged>>

\* The like document createLike stores: the route passes userId and postId
\* as the strings of the request.
LikeDocument(uid, postId) == [userId |-> Str(uid), postId |-> Str(postId)]

\* POST /api/posts/:id/like, up to createLike's insert: its findOne fails
\* (500) or finds the like (409, 'Already liked'); otherwise createLike goes
\* on to insert.
LikeBegin(uid, postId) ==
    /\ nrequests < MaxHttpRequests
    /\ \E outcome \in {"ok", "find_failed"} :
         IF outcome = "find_failed"
         THEN Respond(nrequests + 1, "POST /like", uid, postId, 500) /\ UNCHANGED requests
         ELSE IF \E i \in DOMAIN likes : likes[i] = LikeDocument(uid, postId)
         THEN Respond(nrequests + 1, "POST /like", uid, postId, 409) /\ UNCHANGED requests
         ELSE /\ requests' = requests \cup {Request(nrequests + 1, "POST /like", uid, postId)}
              /\ UNCHANGED <<responses, pushes, broadcasts>>
    /\ UNCHANGED <<posts, likes, follows, httpUnchanged>>

\* The outcomes of an insert of document d into a collection with a unique
\* index: a duplicate is refused.
InsertOutcomes(collection, d) ==
    IF \E i \in DOMAIN collection : collection[i] = d
    THEN {"insert_failed"}
    ELSE {"ok", "insert_failed", "update_failed"}

\* createLike settles: the like is inserted and the post's counter updated,
\* or one of the calls fails; then post_liked is broadcast.
LikeEnd(r) ==
    /\ r.route = "POST /like"
    /\ \E outcome \in InsertOutcomes(likes, LikeDocument(r.userId, r.target)) :
         /\ likes' = IF outcome = "insert_failed" THEN likes
                     ELSE Append(likes, LikeDocument(r.userId, r.target))
         /\ Finish(r.id, r.route, r.userId, r.target, "post_liked", 201, outcome)
    /\ requests' = requests \ {r}
    /\ UNCHANGED <<posts, follows, httpUnchanged>>

\* collection without its first document that equals query, if any
\* (deleteOne).
DeleteOne(collection, query) ==
    IF \E i \in DOMAIN collection : collection[i] = query
    THEN LET i == CHOOSE i \in DOMAIN collection :
                     /\ collection[i] = query
                     /\ \A j \in 1..(i - 1) : collection[j] # query
         IN  SubSeq(collection, 1, i - 1) \o SubSeq(collection, i + 1, Len(collection))
    ELSE collection

\* The outcomes of removeLike / removeFollow: the counters are updated (and
\* that may fail) only when a document was deleted.
DeleteOutcomes(collection, query) ==
    IF DeleteOne(collection, query) = collection
    THEN {"ok", "delete_failed"}
    ELSE {"ok", "delete_failed", "update_failed"}

\* DELETE /api/posts/:id/like: removeLike deletes the like whose userId and
\* postId equal the ObjectIds made of the request's strings; 404 when nothing
\* was deleted, else post_unliked is broadcast.
Unlike(uid, postId) ==
    /\ nrequests < MaxHttpRequests
    /\ LET query == [userId |-> Oid(uid), postId |-> Oid(postId)]
       IN  \E outcome \in DeleteOutcomes(likes, query) :
              /\ likes' = IF outcome = "delete_failed" THEN likes ELSE DeleteOne(likes, query)
              /\ IF outcome = "ok" /\ DeleteOne(likes, query) = likes
                 THEN Respond(nrequests + 1, "DELETE /like", uid, postId, 404)
                 ELSE Finish(nrequests + 1, "DELETE /like", uid, postId,
                             "post_unliked", 200, outcome)
    /\ UNCHANGED <<posts, follows, requests, httpUnchanged>>

\* The follow document createFollow stores, with the request's strings.
FollowDocument(followerId, followingId) ==
    [followerId |-> Str(followerId), followingId |-> Str(followingId)]

\* POST /api/users/:id/follow, up to createFollow's insert: 400 on a
\* self-follow, 500 when findOne fails, 409 when it finds the follow.
FollowBegin(followerId, followingId) ==
    /\ nrequests < MaxHttpRequests
    /\ IF followerId = followingId
       THEN Respond(nrequests + 1, "POST /follow", followerId, followingId, 400)
            /\ UNCHANGED requests
       ELSE \E outcome \in {"ok", "find_failed"} :
               IF outcome = "find_failed"
               THEN Respond(nrequests + 1, "POST /follow", followerId, followingId, 500)
                    /\ UNCHANGED requests
               ELSE IF \E i \in DOMAIN follows :
                          follows[i] = FollowDocument(followerId, followingId)
               THEN Respond(nrequests + 1, "POST /follow", followerId, followingId, 409)
                    /\ UNCHANGED requests
               ELSE /\ requests' = requests \cup
                          {Request(nrequests + 1, "POST /follow", followerId, followingId)}
                    /\ UNCHANGED <<responses, pushes, broadcasts>>
    /\ UNCHANGED <<posts, likes, follows, httpUnchanged>>

\* createFollow and createNotification settle: the follow is inserted, the
\* counters are updated and the notification is created, or one of the calls
\* fails; then new_follow is broadcast.
FollowEnd(r) ==
    /\ r.route = "POST /follow"
    /\ \E outcome \in InsertOutcomes(follows, FollowDocument(r.userId, r.target))
                         \cup {"notification_failed"} :
         /\ follows' = IF outcome = "insert_failed" THEN follows
                       ELSE Append(follows, FollowDocument(r.userId, r.target))
         /\ Finish(r.id, r.route, r.userId, r.target, "new_follow", 201, outcome)
    /\ requests' = requests \ {r}
    /\ UNCHANGED <<posts, likes, httpUnchanged>>

\* DELETE /api/users/:id/follow: removeFollow deletes by ObjectIds; 404 when
\* nothing was deleted, else unfollow is broadcast.
Unfollow(followerId, followingId) ==
    /\ nrequests < MaxHttpRequests
    /\ LET query == [followerId |-> Oid(followerId), followingId |-> Oid(followingId)]
       IN  \E outcome \in DeleteOutcomes(follows, query) :
              /\ follows' = IF outcome = "delete_failed" THEN follows
                            ELSE DeleteOne(follows, query)
              /\ IF outcome = "ok" /\ DeleteOne(follows, query) = follows
                 THEN Respond(nrequests + 1, "DELETE /follow", followerId, followingId, 404)
                 ELSE Finish(nrequests + 1, "DELETE /follow", followerId, followingId,
                             "unfollow", 200, outcome)
    /\ UNCHANGED <<posts, likes, requests, httpUnchanged>>

NextHttp ==
    \/ \E u \in Users, content \in Contents : PostPosts(u, content)
    \/ \E u \in Users, p \in PostIds : DeletePostsBegin(u, p)
    \/ \E r \in requests : DeletePostsEnd(r)
    \/ \E u \in Users, p \in PostIds : LikeBegin(u, p)
    \/ \E r \in requests : LikeEnd(r)
    \/ \E u \in Users, p \in PostIds : Unlike(u, p)
    \/ \E u \in Users, t \in Users : FollowBegin(u, t)
    \/ \E r \in requests : FollowEnd(r)
    \/ \E u \in Users, t \in Users : Unfollow(u, t)

SpecHttp == Init /\ [][NextHttp]_vars

(* ----------------------- reading the histories ------------------------- *)

\* The ws.send calls made by the step.
NewPushes == SubSeq(pushes', Len(pushes) + 1, Len(pushes'))

\* The handler invocations that ran to their end in the step.
Finished == {h \in handlers : \A g \in handlers' : g.id # h.id}

\* Whether key k of connectedClients maps to connection c.
Bound(m, k, c) == <<k, c>> \in m

\* The indices of the authenticated frames sent for identity u.
AuthenticatedAs(u) ==
    {j \in DOMAIN pushes : pushes[j].type = "authenticated" /\ frames[pushes[j].frame].user = u}

\* Frame n led to a store call, a stored document or a ws.send.
ActedUpon(n) ==
    \/ \E h \in handlers : h.id = n /\ h.kind = "send"
    \/ \E i \in DOMAIN store : store[i].frame = n
    \/ \E i \in DOMAIN pushes : pushes[i].frame = n

\* An authenticated frame was sent on c for an authenticate frame that came
\* before frame n, and before any ws.send made for frame n.
AuthenticatedEarlier(c, n) ==
    \E j \in DOMAIN pushes :
        /\ pushes[j].to = c
        /\ pushes[j].type = "authenticated"
        /\ pushes[j].frame < n
        /\ \A i \in DOMAIN pushes : pushes[i].frame = n => j < i

PrivilegedTypes == {"send_message", "typing_start", "typing_stop"}

(* ------------------------------ claims -------------------------------- *)

\* C1: a send_message or typing frame received on connection c leads to a
\* store call, a stored document or a push (to any connection) only if an
\* authenticate frame succeeded on c before it.
C1_NoActionBeforeAuthenticate ==
    \A n \in DOMAIN frames :
        frames[n].type \in PrivilegedTypes /\ ActedUpon(n)
            => AuthenticatedEarlier(frames[n].conn, n)

\* C1 witness: a send_message frame of an unauthenticated connection was
\* dropped, and one of an authenticated connection was persisted.
C1_Witness ==
    /\ \E n \in DOMAIN frames :
          /\ frames[n].type = "send_message"
          /\ userId[frames[n].conn] = NoUser
          /\ ~ActedUpon(n)
    /\ \E n \in DOMAIN frames :
          /\ frames[n].type = "send_message"
          /\ \E i \in DOMAIN store : store[i].frame = n

\* C2 (as claimed): when identity U is registered to connection B and
\* connection A, which authenticated as U earlier, closes, U's entry stays
\* and still resolves to B.
C2_CloseKeepsNewerBinding ==
    [][\A a \in Conns, b \in Conns :
          (/\ readyState[a] # "CLOSED" /\ readyState'[a] = "CLOSED"
           /\ a # b
           /\ userId[a] # NoUser
           /\ Bound(connectedClients, userId[a], b))
          => Bound(connectedClients', userId[a], b)]_vars

\* The largest element of a non-empty set of numbers.
Max(S) == CHOOSE x \in S : \A y \in S : y <= x

\* connectedClients holds at most one connection per identity.
OneConnectionPerIdentity ==
    \A p \in connectedClients, q \in connectedClients : p[1] = q[1] => p = q

\* Every new_message sent so far went to the connection of the last
\* authenticate that had succeeded for the message's receiver.
RoutedToLastAuthenticated ==
    \A i \in DOMAIN pushes :
        pushes[i].type = "new_message" =>
            LET earlier == {j \in AuthenticatedAs(store[pushes[i].msg].receiverId) : j < i}
            IN  /\ earlier # {}
                /\ pushes[i].to = pushes[Max(earlier)].to

\* C3: the registry holds at most one connection per identity; a new_message
\* for U goes to the connection of U's last successful authenticate and to no
\* other; and a successful authenticate closes no connection (the connection
\* that held the binding before stays open).
C3_LastAuthenticateWins ==
    [][/\ OneConnectionPerIdentity'
       /\ RoutedToLastAuthenticated'
       /\ (\E h \in Finished : h.kind = "auth") => readyState' = readyState]_vars

\* C3 witness: U authenticated on A, then on B; a new_message for U went to B,
\* and A is still open.
C3_Witness ==
    \E i \in DOMAIN pushes, j \in DOMAIN pushes, k \in DOMAIN pushes :
        /\ j < k /\ k < i
        /\ pushes[i].type = "new_message"
        /\ {j, k} \subseteq AuthenticatedAs(store[pushes[i].msg].receiverId)
        /\ pushes[j].to # pushes[k].to
        /\ pushes[i].to = pushes[k].to
        /\ readyState[pushes[j].to] = "OPEN"

\* C4 (as claimed): once the close of connection c has been handled, no
\* registry entry has c as its value.
C4_NoEntryForClosedConnection ==
    \A c \in Conns :
        readyState[c] = "CLOSED" => \A p \in connectedClients : p[2] # c

\* The sends of sequence q whose type is among types, in order.
SelectType(q, types) == SelectSeq(q, LAMBDA p : p.type \in types)

\* The ws.send calls made so far for frame n with a type among types.
PushesFor(n, types) ==
    {i \in DOMAIN pushes : pushes[i].frame = n /\ pushes[i].type \in types}

\* The stored document the store call of frame n resolved with.
Persisted(h) ==
    /\ h.msg \in DOMAIN store
    /\ store[h.msg].id = h.msg
    /\ store[h.msg].frame = h.id

\* C5: when the send_message handler of a connection bound to S resumes from a
\* store call that resolved and the registry maps the receiver R to an open
\* connection r, it sends exactly one new_message to r and exactly one
\* message_sent to S's connection, both carrying the persisted message; and
\* no frame is ever answered by more than one of either.
C5_RoundTrip ==
    [][/\ \A h \in Finished :
            (/\ h.kind = "send" /\ h.pc = "resolved"
             /\ \E r \in Conns : /\ Bound(connectedClients, h.data.receiverId, r)
                                 /\ readyState[r] = "OPEN")
            => LET r == MapGet(connectedClients, h.data.receiverId)[2]
               IN  /\ Persisted(h)
                   /\ SelectType(NewPushes, {"new_message"})
                        = <<[to |-> r, type |-> "new_message", msg |-> h.msg,
                             open |-> TRUE, frame |-> h.id]>>
                   /\ SelectType(NewPushes, {"message_sent"})
                        = <<[to |-> h.conn, type |-> "message_sent", msg |-> h.msg,
                             open |-> readyState[h.conn] = "OPEN", frame |-> h.id]>>
                   /\ Len(NewPushes) = 2
       /\ \A n \in DOMAIN frames' :
            /\ Cardinality({i \in DOMAIN pushes' :
                   pushes'[i].frame = n /\ pushes'[i].type = "new_message"}) <= 1
            /\ Cardinality({i \in DOMAIN pushes' :
                   pushes'[i].frame = n /\ pushes'[i].type = "message_sent"}) <= 1]_vars

\* C5 witness: a new_message delivered to the receiver's open connection and
\* the message_sent delivered to the sender's, another connection, for the
\* same frame and the same stored message.
C5_Witness ==
    \E i \in DOMAIN pushes, j \in DOMAIN pushes :
        /\ pushes[i].type = "new_message" /\ pushes[i].open
        /\ pushes[j].type = "message_sent" /\ pushes[j].open
        /\ pushes[i].frame = pushes[j].frame
        /\ pushes[i].msg = pushes[j].msg
        /\ pushes[i].to # pushes[j].to
        /\ store[pushes[i].msg].receiverId = userId[pushes[i].to]
        /\ store[pushes[i].msg].senderId = userId[pushes[j].to]

\* C6: when the send_message handler resumes from a store call that resolved
\* and the receiver has no registry entry, the message is in the store, the
\* handler sends message_sent to the sender's connection and nothing else.
C6_OfflineRecipient ==
    [][\A h \in Finished :
          (/\ h.kind = "send" /\ h.pc = "resolved"
           /\ ~MapHas(connectedClients, h.data.receiverId))
          => /\ Persisted(h)
             /\ Persisted(h)'
             /\ NewPushes = <<[to |-> h.conn, type |-> "message_sent", msg |-> h.msg,
                               open |-> readyState[h.conn] = "OPEN", frame |-> h.id]>>]_vars

\* C6 witness: a frame answered with message_sent and no new_message, its
\* message stored, while the receiver has no registry entry.
C6_Witness ==
    \E j \in DOMAIN pushes :
        /\ pushes[j].type = "message_sent"
        /\ PushesFor(pushes[j].frame, {"new_message"}) = {}
        /\ pushes[j].msg \in DOMAIN store
        /\ store[pushes[j].msg].receiverId \in Users
        /\ ~MapHas(connectedClients, store[pushes[j].msg].receiverId)

\* C7: when the store call of a send_message rejected, the resuming handler
\* sends one error frame to the sender and nothing else, and the registry is
\* unchanged; and every message_sent or new_message is sent by a handler whose
\* store call resolved, and carries the document that call stored.
C7_PersistenceFailure ==
    [][/\ \A h \in Finished :
            (h.kind = "send" /\ h.pc = "rejected")
            => /\ NewPushes = <<[to |-> h.conn, type |-> "error", msg |-> 0,
                                 open |-> readyState[h.conn] = "OPEN", frame |-> h.id]>>
               /\ connectedClients' = connectedClients
       /\ \A i \in DOMAIN NewPushes :
            NewPushes[i].type \in {"message_sent", "new_message"}
            => \E h \in Finished :
                  /\ h.kind = "send" /\ h.pc = "resolved"
                  /\ h.id = NewPushes[i].frame
                  /\ h.msg = NewPushes[i].msg
                  /\ Persisted(h)]_vars

\* C7 witness: a send_message whose store call failed after the insert (the
\* document is stored) was answered with an error frame and nothing else.
C7_Witness ==
    \E i \in DOMAIN pushes, d \in DOMAIN store :
        /\ pushes[i].type = "error"
        /\ store[d].frame = pushes[i].frame
        /\ PushesFor(pushes[i].frame, {"message_sent", "new_message"}) = {}
        /\ \A h \in handlers : h.id # pushes[i].frame

\* The handler invocations that suspended in the step.
Started == {h \in handlers' : \A g \in handlers : g.id # h.id}

\* The documents inserted by the step.
NewDocuments == SubSeq(store', Len(store) + 1, Len(store'))

\* C8: the sender of the messageData a send_message frame builds is the
\* identity bound to its connection when the frame is handled, whatever
\* senderId the body names; and the document stored for it has that sender,
\* even if the connection was bound to another identity meanwhile.
C8_SenderFromConnection ==
    [][/\ \A h \in Started :
            h.kind = "send" =>
                /\ frames'[h.id].type = "send_message"
                /\ frames'[h.id].conn = h.conn
                /\ h.data.senderId = userId[h.conn]
                /\ h.data.senderId \in Users
       /\ \A i \in DOMAIN NewDocuments :
            \E h \in handlers :
                /\ h.id = NewDocuments[i].frame
                /\ h.conn = NewDocuments[i].conn
                /\ NewDocuments[i].senderId = h.data.senderId]_vars

\* C8 witness: a stored document whose frame body named another sender than
\* the identity that was bound to the connection.
C8_Witness ==
    \E d \in DOMAIN store :
        /\ frames[store[d].frame].user # store[d].senderId
        /\ store[d].senderId = userId[store[d].conn]

\* C9: when the authenticate branch runs with a token the verifier accepts for
\* U, the connection's userId becomes U, the registry maps U to this
\* connection and to no other, and the one frame sent is authenticated, on
\* this connection.
C9_AuthenticationSuccess ==
    [][\A h \in Finished :
          (h.kind = "auth" /\ verifyAccessTokenOk(h.token))
          => /\ userId'[h.conn] = h.token.userId
             /\ \A c \in Conns : Bound(connectedClients', h.token.userId, c) <=> c = h.conn
             /\ NewPushes = <<[to |-> h.conn, type |-> "authenticated", msg |-> 0,
                               open |-> readyState[h.conn] = "OPEN", frame |-> h.id]>>]_vars

\* C9 witness: U is bound to the connection of its second successful
\* authenticate, which replaced the binding to the connection of its first.
C9_Witness ==
    \E u \in Users, j \in DOMAIN pushes, k \in DOMAIN pushes :
        /\ {j, k} \subseteq AuthenticatedAs(u)
        /\ j < k
        /\ pushes[j].to # pushes[k].to
        /\ k = Max(AuthenticatedAs(u))
        /\ userId[pushes[k].to] = u
        /\ connectedClients = {<<u, pushes[k].to>>}

\* An authentication_error frame was sent on c.
AuthenticationFailedOn(c) ==
    \E i \in DOMAIN pushes : pushes[i].to = c /\ pushes[i].type = "authentication_error"

\* C10: when the authenticate branch runs with a token the verifier rejects on
\* a connection with no userId, the connection keeps no userId, the registry
\* and every readyState are unchanged, and the one frame sent is
\* authentication_error, on this connection; and an authenticate with an
\* accepted token on a connection that failed before succeeds.
C10_AuthenticationFailure ==
    [][\A h \in Finished :
          /\ (h.kind = "auth" /\ ~verifyAccessTokenOk(h.token) /\ userId[h.conn] = NoUser)
             => /\ userId'[h.conn] = NoUser
                /\ connectedClients' = connectedClients
                /\ readyState' = readyState
                /\ NewPushes = <<[to |-> h.conn, type |-> "authentication_error", msg |-> 0,
                                  open |-> readyState[h.conn] = "OPEN", frame |-> h.id]>>
          /\ (h.kind = "auth" /\ verifyAccessTokenOk(h.token) /\ AuthenticationFailedOn(h.conn))
             => /\ userId'[h.conn] = h.token.userId
                /\ Bound(connectedClients', h.token.userId, h.conn)
                /\ NewPushes = <<[to |-> h.conn, type |-> "authenticated", msg |-> 0,
                                  open |-> readyState[h.conn] = "OPEN", frame |-> h.id]>>]_vars

\* C10 witness: an open connection whose first authenticate was rejected and
\* whose later authenticate, received after the rejection, succeeded.
C10_Witness ==
    \E c \in Conns, i \in DOMAIN pushes, j \in DOMAIN pushes :
        /\ i < j
        /\ pushes[i].to = c /\ pushes[i].type = "authentication_error"
        /\ pushes[j].to = c /\ pushes[j].type = "authenticated"
        /\ \A k \in 1..(i - 1) : pushes[k].to # c
        /\ pushes[i].frame < pushes[j].frame
        /\ readyState[c] = "OPEN"
        /\ userId[c] # NoUser
        /\ Bound(connectedClients, userId[c], c)

\* C11: a connection that has a userId keeps one in every step, whatever
\* frame it sends afterwards, a rejected authenticate included, and also when
\* it closes.
C11_NeverBackToUnauthenticated ==
    [][\A c \in Conns : userId[c] # NoUser => userId'[c] # NoUser]_vars

\* C11 witness: an authenticate was rejected on a connection after one had
\* succeeded on it, and the connection still has its userId.
C11_Witness ==
    \E c \in Conns, i \in DOMAIN pushes, j \in DOMAIN pushes :
        /\ i < j
        /\ pushes[i].to = c /\ pushes[i].type = "authenticated"
        /\ pushes[j].to = c /\ pushes[j].type = "authentication_error"
        /\ userId[c] = frames[pushes[i].frame].user

\* The inbound frames handled by the step, with their numbers.
NewFrames == {n \in DOMAIN frames' : n > Len(frames)}

\* C12 (as claimed): a send_message frame handled on a connection with no
\* userId is answered by an error frame on that connection, and makes no
\* store call.
C12_UnauthenticatedSendRejected ==
    [][\A n \in NewFrames :
          (frames'[n].type = "send_message" /\ userId[frames'[n].conn] = NoUser)
          => /\ \E i \in DOMAIN NewPushes :
                   /\ NewPushes[i].to = frames'[n].conn
                   /\ NewPushes[i].type = "error"
             /\ handlers' = handlers
             /\ store' = store]_vars


\* C13 (as claimed): a send_message whose content is empty or whitespace-only
\* never reaches the store call: no handler waits on the store with such a
\* content, no such document is stored, and no new_message or message_sent
\* carries one.
C13_BlankContentRejected ==
    /\ \A h \in handlers : h.kind = "send" => ~Blank(h.data.content)
    /\ \A d \in DOMAIN store : ~Blank(store[d].content)
    /\ \A i \in DOMAIN pushes :
          pushes[i].type \in {"new_message", "message_sent"} => ~Blank(store[pushes[i].msg].content)

\* C14: an unparseable frame on connection c is answered by exactly one error
\* frame, on c; the step changes no userId, no readyState, not the registry,
\* the store or the suspended handlers; and an authenticate with an accepted
\* token handled on c afterwards succeeds as on any connection.
C14_UnparseableFrame ==
    [][/\ \A n \in NewFrames :
            frames'[n].type = "none"
            => /\ NewPushes = <<[to |-> frames'[n].conn, type |-> "error", msg |-> 0,
                                 open |-> TRUE, frame |-> n]>>
               /\ userId' = userId
               /\ connectedClients' = connectedClients
               /\ readyState' = readyState
               /\ readyState[frames'[n].conn] = "OPEN"
               /\ handlers' = handlers
               /\ store' = store
       /\ \A h \in Finished :
            (/\ h.kind = "auth" /\ verifyAccessTokenOk(h.token)
             /\ \E n \in DOMAIN frames :
                   frames[n].type = "none" /\ frames[n].conn = h.conn /\ n < h.id)
            => /\ userId'[h.conn] = h.token.userId
               /\ Bound(connectedClients', h.token.userId, h.conn)
               /\ SelectType(NewPushes, {"authenticated"}) # <<>>]_vars

\* C14 witness: a connection got one error frame for an unparseable frame, is
\* open, and an authenticate it sent afterwards succeeded.
C14_Witness ==
    \E n \in DOMAIN frames, j \in DOMAIN pushes :
        /\ frames[n].type = "none"
        /\ Cardinality(PushesFor(n, {"error"})) = 1
        /\ pushes[j].type = "authenticated"
        /\ pushes[j].to = frames[n].conn
        /\ pushes[j].frame > n
        /\ readyState[frames[n].conn] = "OPEN"
        /\ userId[frames[n].conn] # NoUser

\* C15 (as claimed): a parseable frame whose type no branch recognises is
\* answered by an error frame on its connection, and has no other effect.
C15_UnknownTypeAnswered ==
    [][\A n \in NewFrames :
          frames'[n].type = "bogus"
          => /\ NewPushes = <<[to |-> frames'[n].conn, type |-> "error", msg |-> 0,
                               open |-> TRUE, frame |-> n]>>
             /\ UNCHANGED <<readyState, userId, connectedClients, handlers, store>>]_vars

\* C17 (as claimed): a typing_start or typing_stop frame handled on a
\* connection that has a userId makes exactly one send, of a frame of the same
\* type, to the connection registered for its targetUserId, and none when the
\* target has no registry entry.
C17_TypingForwarded ==
    [][\A n \in NewFrames :
          (frames'[n].type \in TypingTypes /\ userId[frames'[n].conn] # NoUser)
          => IF MapHas(connectedClients, frames'[n].user)
             THEN /\ Len(NewPushes) = 1
                  /\ NewPushes[1].to = MapGet(connectedClients, frames'[n].user)[2]
                  /\ NewPushes[1].type = frames'[n].type
             ELSE NewPushes = <<>>]_vars

\* C18 (as claimed): once the handling of the client hook's handshake frame
\* (type "auth") has ended on a connection that is still open, the connection
\* has a userId and is registered, so that broadcasts and new_message frames
\* reach it.
C18_HandshakeRegisters ==
    \A n \in DOMAIN frames :
        (/\ frames[n].type = "auth"
         /\ readyState[frames[n].conn] = "OPEN"
         /\ \A h \in handlers : h.id # n)
        => /\ userId[frames[n].conn] # NoUser
           /\ \E u \in Users : Bound(connectedClients, u, frames[n].conn)


\* The step is a broadcastToClients call.
Broadcasting == Len(broadcasts') = Len(broadcasts) + 1

\* The connections that are authenticated (ws.userId is set) and open.
AuthenticatedOpen == {c \in Conns : userId[c] # NoUser /\ readyState[c] = "OPEN"}

\* C16 (as claimed): a broadcast call made while N connections are
\* authenticated and open makes exactly N pushes, one to each of them, all
\* with the same type and data.
C16_BroadcastReachesAuthenticated ==
    [][Broadcasting =>
          /\ Len(NewPushes) = Cardinality(AuthenticatedOpen)
          /\ \A c \in AuthenticatedOpen :
                \E i \in DOMAIN NewPushes : NewPushes[i].to = c
          /\ \A i, j \in DOMAIN NewPushes :
                NewPushes[i].type = NewPushes[j].type /\ NewPushes[i].msg = NewPushes[j].msg]_vars

\* C19: in a broadcast call, a registered connection that is not OPEN gets no
\* push, no error frame is sent to anyone, and every registered connection
\* that is OPEN gets the payload on an open transport.
C19_BroadcastSkipsNotReady ==
    [][Broadcasting =>
          /\ \A p \in connectedClients :
                IF readyState[p[2]] # "OPEN"
                THEN \A i \in DOMAIN NewPushes : NewPushes[i].to # p[2]
                ELSE \E i \in DOMAIN NewPushes :
                        /\ NewPushes[i].to = p[2]
                        /\ NewPushes[i].open
                        /\ NewPushes[i].type = broadcasts'[Len(broadcasts')].type
          /\ \A i \in DOMAIN NewPushes : NewPushes[i].type \in BroadcastTypes]_vars

\* C19 witness: a broadcast ran while the registry held a connection that was
\* not OPEN and one that was, and the open one was sent the event.
C19_Witness ==
    \E b \in DOMAIN broadcasts :
        \E p \in broadcasts[b].registry, q \in broadcasts[b].registry :
            /\ p[2] \notin broadcasts[b].open
            /\ q[2] \in broadcasts[b].open
            /\ \E i \in DOMAIN pushes :
                  /\ pushes[i].frame = 0
                  /\ pushes[i].to = q[2]
                  /\ pushes[i].type = broadcasts[b].type
            /\ \A i \in DOMAIN pushes : pushes[i].frame = 0 => pushes[i].to # p[2]

\* C20: when the handler of an authenticate frame with a valid token for U
\* ends on a connection whose ws.userId is U and which U's registry entry
\* names, the registry and every connection's identity are unchanged.
C20_ReauthenticateIdempotent ==
    [][\A h \in Finished :
          (/\ h.kind = "auth"
           /\ verifyAccessTokenOk(h.token)
           /\ userId[h.conn] = h.token.userId
           /\ Bound(connectedClients, h.token.userId, h.conn))
          => /\ connectedClients' = connectedClients
             /\ userId' = userId]_vars

\* C20 witness: connection c, never closed, was sent authenticated twice for
\* the same identity u, no other connection authenticated, and u is bound to c.
C20_Witness ==
    \E c \in Conns, u \in Users :
        /\ readyState[c] = "OPEN"
        /\ userId[c] = u
        /\ Bound(connectedClients, u, c)
        /\ \A i \in DOMAIN pushes : pushes[i].type = "authenticated" => pushes[i].to = c
        /\ \E i, j \in AuthenticatedAs(u) : i < j

\* C21 (as claimed): a frame of connection c starts being handled only when
\* no handling of an earlier frame of c is still suspended (at the import or
\* at the store call).
C21_OneFrameAtATime ==
    [][\A n \in NewFrames :
          \A h \in handlers : h.conn # frames'[n].conn]_vars

\* The step handles a frame or resumes a suspended handler.
FrameStep == NewFrames # {} \/ Finished # {} \/ handlers' # handlers

\* C22: a step of a frame's handling changes no connection's readyState, and
\* changes ws.userId only of the connection whose handler ends in the step.
C22_Isolation ==
    [][FrameStep =>
          /\ readyState' = readyState
          /\ \A d \in Conns :
                userId'[d] # userId[d] => \E h \in Finished : h.conn = d]_vars

\* C22 witness: connection d was authenticated; afterwards connection c was
\* sent an authentication_error and an error frame, and d is still open and
\* bound.
C22_Witness ==
    \E c \in Conns, d \in Conns :
        /\ c # d
        /\ readyState[d] = "OPEN"
        /\ userId[d] # NoUser
        /\ \E k, i, j \in DOMAIN pushes :
              /\ pushes[k].to = d /\ pushes[k].type = "authenticated"
              /\ k < i /\ k < j
              /\ pushes[i].to = c /\ pushes[i].type = "authentication_error"
              /\ pushes[j].to = c /\ pushes[j].type = "error"

\* C24 (as claimed): a new_message frame is sent only to a connection whose
\* ws.userId is, at the send, the receiver of the message it carries.
C24_NoMisdelivery ==
    [][\A i \in DOMAIN NewPushes :
          NewPushes[i].type = "new_message"
            => userId[NewPushes[i].to] = store[NewPushes[i].msg].receiverId]_vars

\* C25 (as claimed): every registry entry U -> c has ws.userId of c equal to U.
C25_RegistryConsistent ==
    \A p \in connectedClients : userId[p[2]] = p[1]

\* C26 (as claimed): the new_message frames sent to one open connection for
\* the messages one sender connection addressed to one receiver are in the
\* order in which the sender's frames arrived.
C26_PerSenderOrder ==
    \A i, j \in DOMAIN pushes :
        (/\ i < j
         /\ pushes[i].type = "new_message" /\ pushes[j].type = "new_message"
         /\ pushes[i].to = pushes[j].to
         /\ pushes[i].open /\ pushes[j].open
         /\ frames[pushes[i].frame].conn = frames[pushes[j].frame].conn
         /\ store[pushes[i].msg].receiverId = store[pushes[j].msg].receiverId)
        => pushes[i].frame < pushes[j].frame

\* C27 (as claimed): every ws.send of the send_message branch, of its catch
\* and of a broadcast is made on a connection that is OPEN.
C27_PushOnlyToOpen ==
    \A i \in DOMAIN pushes :
        pushes[i].type \in {"new_message", "message_sent", "error"} \cup BroadcastTypes
            => pushes[i].open

\* The message_sent and error frames among the sends p that answer frame n on
\* connection c.
Answers(p, n, c) ==
    {i \in DOMAIN p :
        p[i].frame = n /\ p[i].to = c /\ p[i].type \in {"message_sent", "error"}}

\* C28: a send_message frame arriving on a connection with ws.userId set is
\* answered at once by one error frame or its handler suspends at the store
\* call; a suspended handler can always take its next step and has sent no
\* answer yet; when it ends it has sent exactly one message_sent or error
\* frame on its own connection, on an open transport if the connection is
\* OPEN; and no frame ever has two answers.
C28_SendAnswered ==
    [][/\ \A n \in NewFrames :
             (frames'[n].type = "send_message" /\ userId[frames'[n].conn] # NoUser)
             => \/ /\ \E h \in Started : h.id = n /\ h.kind = "send" /\ h.conn = frames'[n].conn
                   /\ Answers(pushes', n, frames'[n].conn) = {}
                \/ /\ Started = {}
                   /\ Cardinality(Answers(pushes', n, frames'[n].conn)) = 1
                   /\ Answers(NewPushes, n, frames'[n].conn) # {}
       /\ \A h \in handlers :
             h.kind = "send"
             => /\ Answers(pushes, h.id, h.conn) = {}
                /\ ENABLED (CreateMessage(h) \/ SendMessageResume(h))
       /\ \A h \in Finished :
             h.kind = "send"
             => /\ Cardinality(Answers(NewPushes, h.id, h.conn)) = 1
                /\ \A i \in Answers(NewPushes, h.id, h.conn) :
                      NewPushes[i].open = (readyState[h.conn] = "OPEN")
       /\ \A n \in DOMAIN frames' :
             Cardinality(Answers(pushes', n, frames'[n].conn)) <= 1]_vars

\* C28 witness: on a connection that is still OPEN one send_message frame was
\* answered by message_sent and another, whose store call failed, by error.
C28_Witness ==
    \E c \in Conns :
        /\ readyState[c] = "OPEN"
        /\ \E i, j \in DOMAIN pushes :
              /\ pushes[i].to = c /\ pushes[i].type = "message_sent" /\ pushes[i].open
              /\ pushes[j].to = c /\ pushes[j].type = "error" /\ pushes[j].open
              /\ frames[pushes[j].frame].type = "send_message"
              /\ \E d \in DOMAIN store : store[d].frame = pushes[j].frame

\* Calls a and b name the same email and OTP type.
SameOtpKey(a, b) == a.email = b.email /\ a.type = b.type

\* In log, two successful verifications of the same email, code and type have
\* between them a send that stored a new OTP for that email and type.
SingleUse(log) ==
    \A i, j \in DOMAIN log :
        (/\ i < j
         /\ log[i].op = "verify" /\ log[i].result
         /\ log[j].op = "verify" /\ log[j].result
         /\ SameOtpKey(log[i], log[j]) /\ log[i].code = log[j].code)
        => \E k \in (i + 1)..(j - 1) :
              log[k].op = "send" /\ log[k].result /\ SameOtpKey(log[k], log[i])

\* The verifyOTP call made by the step, if any, as a set.
NewVerify ==
    {n \in DOMAIN otpLog' : n > Len(otpLog) /\ otpLog'[n].op = "verify"}

EarlierOfClient(log, n) == {m \in 1..(n - 1) : log[m].clientId = log[n].clientId}

RECURSIVE WindowOpener(_, _)
\* The request that opened the window request n of log falls in: n itself
\* when it is the client's first request or comes after the reset time of
\* the window of the client's previous request.
WindowOpener(log, n) ==
    IF EarlierOfClient(log, n) = {} THEN n
    ELSE LET prev == Max(EarlierOfClient(log, n))
             open == WindowOpener(log, prev)
         IN  IF log[n].time > log[open].time + windowMs THEN n ELSE open

\* The position of request n among the requests of its window.
PlaceInWindow(log, n) ==
    Cardinality({m \in 1..n :
        log[m].clientId = log[n].clientId /\ WindowOpener(log, m) = WindowOpener(log, n)})

\* C30 (as claimed): a request is passed on exactly when it is among the
\* first maxAttempts requests of its client's window.
C30_RateLimit ==
    \A n \in DOMAIN limiterLog :
        limiterLog[n].passed = (PlaceInWindow(limiterLog, n) <= maxAttempts)

\* The responses sent by the step.
NewResponses == {n \in DOMAIN responses' : n > Len(responses)}

\* The event type each route broadcasts.
EventOf(route) ==
    CASE route = "POST /posts" -> "new_post"
      [] route = "DELETE /posts" -> "post_deleted"
      [] route = "POST /like" -> "post_liked"
      [] route = "DELETE /like" -> "post_unliked"
      [] route = "POST /follow" -> "new_follow"
      [] route = "DELETE /follow" -> "unfollow"

\* The collections after the step hold the mutation response r reports.
Mutated(r) ==
    CASE r.route = "POST /posts" ->
            r.target \in DOMAIN posts' /\ posts'[r.target].userId = r.userId
      [] r.route = "DELETE /posts" ->
            r.target \in DOMAIN posts' /\ posts'[r.target].isDeleted
      [] r.route = "POST /like" ->
            /\ Len(likes') = Len(likes) + 1
            /\ likes'[Len(likes')] = LikeDocument(r.userId, r.target)
      [] r.route = "DELETE /like" -> Len(likes') = Len(likes) - 1
      [] r.route = "POST /follow" ->
            /\ Len(follows') = Len(follows) + 1
            /\ follows'[Len(follows')] = FollowDocument(r.userId, r.target)
      [] r.route = "DELETE /follow" -> Len(follows') = Len(follows) - 1

\* C23: a step makes at most one broadcastToClients call; it makes one only
\* while answering a request with 200 or 201, with that route's event type
\* and with the reported mutation in the collections; a request answered
\* 400, 403, 404, 409 or 500 makes none; and a request is answered once.
C23_BroadcastAfterMutation ==
    [][/\ Len(broadcasts') <= Len(broadcasts) + 1
       /\ Cardinality(NewResponses) <= 1
       /\ Broadcasting =>
             \E n \in NewResponses :
                 /\ responses'[n].status \in {200, 201}
                 /\ broadcasts'[Len(broadcasts')].type = EventOf(responses'[n].route)
                 /\ Mutated(responses'[n])
       /\ \A n \in NewResponses :
             /\ responses'[n].status \in {400, 403, 404, 409, 500} => ~Broadcasting
             /\ \A m \in DOMAIN responses : responses[m].id # responses'[n].id]_vars

\* C23 witness: a like was answered 201 and broadcast, the same like was then
\* answered 409 and a self-follow 400, and there was no other broadcast.
C23_Witness ==
    /\ Len(broadcasts) = 1 /\ broadcasts[1].type = "post_liked"
    /\ \E i, j, k \in DOMAIN responses :
          /\ i < j
          /\ responses[i].route = "POST /like" /\ responses[i].status = 201
          /\ responses[j].route = "POST /like" /\ responses[j].status = 409
          /\ responses[j].userId = responses[i].userId
          /\ responses[j].target = responses[i].target
          /\ responses[k].route = "POST /follow" /\ responses[k].status = 400
=============================================================================
